---- MODULE Spec2Model ----
(***************************************************************************)
(* NeerChitra dashboard (src/app.py): the Streamlit session state machine, *)
(* generate_comprehensive_data, and the views computed from its data frame *)
(* (metrics, status distribution, priority queue, data explorer, export).  *)
(*                                                                         *)
(* Numbers are fixed-point integers:                                       *)
(*   base_degradation, degradation      hundredths of a percent            *)
(*   priority_score (the local)         1/10000 of a score point           *)
(*   pollution_index                    tenths                             *)
(*   every round(x, 1) column           tenths                             *)
(* All products of the code's decimal literals are exact in these units;   *)
(* binary floating-point rounding error is not modelled.                   *)
(***************************************************************************)
EXTENDS Integers, Sequences, FiniteSets, TLC

VARIABLES
    data_loaded,        \* st.session_state.data_loaded
    analysis_complete,  \* st.session_state.analysis_complete
    pc,                 \* position of the script: "idle", "generate"
    view,               \* branch of the page body taken by the last run
    watched,            \* history: <<i, row>>, a row of the dashboard that was on
                        \* screen when the running re-execution began, kept
                        \* until the loop rebuilds the record of lake i
    lake_idx,           \* number of catalog entries the loop has processed
    data,               \* the list `data` built by the loop
    degradation,        \* local of the last loop iteration
    priority_score,     \* local of the last loop iteration (after the clamp)
    df,                 \* data frame returned by generate_comprehensive_data
    metrics,            \* top metric row
    status_counts,      \* df['Status'].value_counts()
    df_sorted,          \* df.sort_values('Priority_Score', ascending=False)
    queue,              \* df_sorted.head(5), the rows of the Priority Queue tab
    status_filter,      \* multiselect values of the Data Explorer tab
    type_filter,
    district_filter,
    filtered_df,        \* rows passing the three filters
    table,              \* rows displayed by st.dataframe
    csv,                \* filtered_df.to_csv(index=False)
    probe_in,           \* input of the engine functions applied in isolation
    probe_out           \* their result

sessionVars == <<data_loaded, analysis_complete>>
loopVars    == <<lake_idx, data, degradation, priority_score>>
renderVars  == <<df, metrics, status_counts, df_sorted, queue, status_filter,
                 type_filter, district_filter, filtered_df, table, csv>>
probeVars   == <<probe_in, probe_out>>
vars        == <<sessionVars, pc, view, watched, loopVars, renderVars, probeVars>>

----------------------------------------------------------------------------
(* Bounds and units *)

\* Values np.random.uniform(15, 65) is sampled at (hundredths of a percent).
\* 24.32 puts Madipakkam at 55.017 and Madhavaram at 35.0195 (just above a
\* threshold) and Chembarambakkam and Puzhal both at 37.8 after rounding;
\* 64.00 drives every lake into the 95% cap.
BaseSamples == {2432, 6400}

MaxFiltersChanged == 1      \* multiselects changed from their default at once

ScoreUnit == 10000          \* priority_score units per score point

Min(a, b) == IF a <= b THEN a ELSE b

\* Python round(x, 1) on a value n/q tenths: nearest, ties to even.
Round(n, q) ==
    LET d == n \div q
        m == n % q
    IN  IF 2 * m > q \/ (2 * m = q /\ d % 2 = 1) THEN d + 1 ELSE d

----------------------------------------------------------------------------
(* The lake catalog, src/app.py 228-299 *)

lakes == <<
    [name |-> "Chembarambakkam Lake", area_2019 |-> 1500, pop |-> 2500, flood |-> 9,
     district |-> "Chennai", type |-> "Reservoir", pollution_index |-> 72, encroachment |-> 35],
    [name |-> "Puzhal Lake (Red Hills)", area_2019 |-> 2000, pop |-> 3200, flood |-> 8,
     district |-> "Chennai", type |-> "Reservoir", pollution_index |-> 68, encroachment |-> 28],
    [name |-> "Cholavaram Lake", area_2019 |-> 800, pop |-> 1200, flood |-> 7,
     district |-> "Chennai", type |-> "Lake", pollution_index |-> 54, encroachment |-> 42],
    [name |-> "Korattur Lake", area_2019 |-> 450, pop |-> 4500, flood |-> 9,
     district |-> "Chennai", type |-> "Lake", pollution_index |-> 81, encroachment |-> 55],
    [name |-> "Velachery Lake", area_2019 |-> 280, pop |-> 6200, flood |-> 10,
     district |-> "Chennai", type |-> "Marsh", pollution_index |-> 89, encroachment |-> 68],
    [name |-> "Madipakkam Lake", area_2019 |-> 320, pop |-> 5800, flood |-> 8,
     district |-> "Chennai", type |-> "Lake", pollution_index |-> 84, encroachment |-> 61],
    [name |-> "Ambattur Lake", area_2019 |-> 650, pop |-> 3800, flood |-> 7,
     district |-> "Chennai", type |-> "Lake", pollution_index |-> 69, encroachment |-> 38],
    [name |-> "Madhavaram Lake", area_2019 |-> 520, pop |-> 2900, flood |-> 6,
     district |-> "Chennai", type |-> "Lake", pollution_index |-> 58, encroachment |-> 31],
    [name |-> "Sholinganallur Marsh", area_2019 |-> 380, pop |-> 4100, flood |-> 9,
     district |-> "Chennai", type |-> "Marsh", pollution_index |-> 76, encroachment |-> 45],
    [name |-> "Nesapakkam Lake", area_2019 |-> 290, pop |-> 5100, flood |-> 8,
     district |-> "Chennai", type |-> "Lake", pollution_index |-> 82, encroachment |-> 52] >>

NumLakes == Len(lakes)

----------------------------------------------------------------------------
(* The body of the loop of generate_comprehensive_data, src/app.py 302-344 *)

DegradationCap == 9500      \* min(degradation, 95)

\* The cap of line 310 left out.
DegradationUncapped(lake, base_degradation) ==
    base_degradation
      + (lake.pop * 25) \div 100
      + lake.pollution_index * 30
      + lake.encroachment * 40

\* lines 304-310: base + pop/1000*2.5 + pollution_index*3 + encroachment*0.4,
\* capped at 95
Degradation(lake, base_degradation) ==
    Min(base_degradation
          + (lake.pop * 25) \div 100
          + lake.pollution_index * 30
          + lake.encroachment * 40,
        DegradationCap)

\* The scoring of the basic preset's flood weight (0.30) left in place.
PriorityScoreFloodWeight30(lake, deg) ==
    Min(100 * ScoreUnit,
        deg * 35 + (lake.pop \div 100) * 25 * 100 + lake.flood * 25 * 30 * 10
          + lake.pollution_index * 2 * 15 * 10 + lake.encroachment * 5 * 100)

\* The weights taken as whole percentages, with no clamp.
PriorityScorePercentUnclamped(lake, deg) ==
    100 * (deg * 35 + (lake.pop \div 100) * 25 * 100 + lake.flood * 25 * 20 * 10
             + lake.pollution_index * 2 * 15 * 10 + lake.encroachment * 5 * 100)

\* The degradation term computed from the area retained instead of lost.
PriorityScoreRetained(lake, deg) ==
    Min(100 * ScoreUnit,
        (10000 - deg) * 35 + (lake.pop \div 100) * 25 * 100 + lake.flood * 25 * 20 * 10
          + lake.pollution_index * 2 * 15 * 10 + lake.encroachment * 5 * 100)

\* The population term without its /100: pop * 0.25.
PriorityScorePopUnnormalised(lake, deg) ==
    Min(100 * ScoreUnit,
        deg * 35 + lake.pop * 25 * 100 + lake.flood * 25 * 20 * 10
          + lake.pollution_index * 2 * 15 * 10 + lake.encroachment * 5 * 100)

\* lines 315-322: the weighted sum, then min(100, priority_score)
PriorityScore(lake, deg) ==
    Min(100 * ScoreUnit,
        deg * 35                                \* degradation * 0.35
          + (lake.pop \div 100) * 25 * 100      \* pop/100 * 0.25
          + lake.flood * 25 * 20 * 10           \* flood * 2.5 * 0.20
          + lake.pollution_index * 2 * 15 * 10  \* pollution_index * 2 * 0.15
          + lake.encroachment * 5 * 100)        \* encroachment * 0.05

\* The thresholds compared with >= instead of >.
ClassifyInclusive(score) ==
    IF score >= 75 * ScoreUnit THEN "Critical"
    ELSE IF score >= 55 * ScoreUnit THEN "High"
    ELSE IF score >= 35 * ScoreUnit THEN "Moderate"
    ELSE "Low"

\* line 343: the conditional expression stored under "Status"
Classify(score) ==
    IF score > 75 * ScoreUnit THEN "Critical"
    ELSE IF score > 55 * ScoreUnit THEN "High"
    ELSE IF score > 35 * ScoreUnit THEN "Moderate"
    ELSE "Low"

\* lines 312-344: the dictionary appended to `data`
Row(lake, deg, score) ==
    [Lake                   |-> lake.name,
     District               |-> lake.district,
     Type                   |-> lake.type,
     Area_2019_ha           |-> lake.area_2019,
     Area_2024_ha           |-> Round(lake.area_2019 * (10000 - deg), 1000),
     Area_Lost_ha           |-> Round(lake.area_2019 * deg, 1000),
     Degradation            |-> Round(deg, 10),
     Population_Density     |-> lake.pop,
     Flood_Risk             |-> lake.flood,
     Pollution_Index        |-> lake.pollution_index,
     Encroachment           |-> lake.encroachment,
     Priority_Score         |-> Round(score, 1000),
     Restoration_Cost_Lakhs |-> Round(lake.area_2019 * deg * lake.pollution_index, 100000),
     Status                 |-> Classify(score)]

----------------------------------------------------------------------------
(* pandas operations used by the dashboard branch, src/app.py 429-653 *)

RowsOf(frame) == {frame[i] : i \in DOMAIN frame}

MaxScore(rows) == CHOOSE m \in {r.Priority_Score : r \in rows} :
                      \A r \in rows : r.Priority_Score <= m

MinScore(rows) == CHOOSE m \in {r.Priority_Score : r \in rows} :
                      \A r \in rows : m <= r.Priority_Score

\* sort_values called without ascending=False: ascending order
RECURSIVE SortValuesAscending(_)
SortValuesAscending(rows) ==
    IF rows = {} THEN {<<>>}
    ELSE LET first == {r \in rows : r.Priority_Score = MinScore(rows)}
         IN  UNION {{<<r>> \o t : t \in SortValuesAscending(rows \ {r})} : r \in first}

\* sort_values('Priority_Score', ascending=False) with the default
\* kind='quicksort', which pandas documents as not stable: every arrangement
\* in descending order of Priority_Score is a possible result, rows of equal
\* score in any order.
RECURSIVE SortValues(_)
SortValues(rows) ==
    IF rows = {} THEN {<<>>}
    ELSE LET first == {r \in rows : r.Priority_Score = MaxScore(rows)}
         IN  UNION {{<<r>> \o t : t \in SortValues(rows \ {r})} : r \in first}

\* .head(n)
HeadRows(frame, n) == SubSeq(frame, 1, Min(n, Len(frame)))

\* df['Status'].value_counts(): one entry per value that occurs
ValueCounts(frame) ==
    [s \in {frame[i].Status : i \in DOMAIN frame} |->
        Cardinality({i \in DOMAIN frame : frame[i].Status = s})]

\* df[col].unique(), the options and default of each multiselect
StatusOptions(frame)   == {frame[i].Status   : i \in DOMAIN frame}
TypeOptions(frame)     == {frame[i].Type     : i \in DOMAIN frame}
DistrictOptions(frame) == {frame[i].District : i \in DOMAIN frame}

\* lines 625-629: boolean-mask selection, the frame's row order is kept
Filtered(frame, sf, tf, dsf) ==
    SelectSeq(frame, LAMBDA r : r.Status \in sf /\ r.Type \in tf /\ r.District \in dsf)

RECURSIVE SumOver(_, _)
SumOver(frame, n) ==
    IF n = 0 THEN 0 ELSE SumOver(frame, n - 1) + frame[n].Area_Lost_ha

\* lines 435-441: the metric row (counts and the Area_Lost_ha total)
Metrics(frame) ==
    [Lakes_Monitored   |-> Len(frame),
     Critical_Priority |-> Cardinality({i \in DOMAIN frame : frame[i].Status = "Critical"}),
     Area_Lost         |-> SumOver(frame, Len(frame))]

CsvHeader ==
    <<"Lake", "District", "Type", "Area_2019_ha", "Area_2024_ha", "Area_Lost_ha",
      "Degradation_%", "Population_Density", "Flood_Risk", "Pollution_Index",
      "Encroachment_%", "Priority_Score", "Restoration_Cost_Lakhs", "Status">>

CsvLine(r) ==
    <<r.Lake, r.District, r.Type, r.Area_2019_ha, r.Area_2024_ha, r.Area_Lost_ha,
      r.Degradation, r.Population_Density, r.Flood_Risk, r.Pollution_Index,
      r.Encroachment, r.Priority_Score, r.Restoration_Cost_Lakhs, r.Status>>

\* line 646: filtered_df.to_csv(index=False): a header line, then one line
\* per row in the frame's own order, without the index
ToCsv(frame) ==
    <<CsvHeader>> \o [i \in 1..Len(frame) |-> CsvLine(frame[i])]

----------------------------------------------------------------------------
(* Values of the script's variables where the code leaves them unset *)

NoMetrics == [Lakes_Monitored |-> 0, Critical_Priority |-> 0, Area_Lost |-> 0]
NoProbeIn == [op |-> "none", lake |-> lakes[1], a |-> 0, b |-> 0]
NoProbeOut == [done |-> FALSE,
               a |-> [score |-> 0, status |-> "Low"], b |-> [score |-> 0, status |-> "Low"]]

LoopCleared ==
    /\ lake_idx' = 0
    /\ data' = <<>>
    /\ degradation' = 0
    /\ priority_score' = 0

RenderCleared ==
    /\ df' = <<>>
    /\ metrics' = NoMetrics
    /\ status_counts' = <<>>
    /\ df_sorted' = <<>>
    /\ queue' = <<>>
    /\ status_filter' = {}
    /\ type_filter' = {}
    /\ district_filter' = {}
    /\ filtered_df' = <<>>
    /\ table' = <<>>
    /\ csv' = <<>>

\* lines 149-155: the session state of a new session; nothing is rendered yet
Init ==
    /\ data_loaded = FALSE
    /\ analysis_complete = FALSE
    /\ pc = "idle"
    /\ view = "landing"
    /\ watched = <<>>
    /\ lake_idx = 0
    /\ data = <<>>
    /\ degradation = 0
    /\ priority_score = 0
    /\ df = <<>>
    /\ metrics = NoMetrics
    /\ status_counts = <<>>
    /\ df_sorted = <<>>
    /\ queue = <<>>
    /\ status_filter = {}
    /\ type_filter = {}
    /\ district_filter = {}
    /\ filtered_df = <<>>
    /\ table = <<>>
    /\ csv = <<>>
    /\ probe_in = NoProbeIn
    /\ probe_out = NoProbeOut

----------------------------------------------------------------------------
(* The dashboard branch, src/app.py 428-653 *)

\* Selections the three multiselects can hold: any subset of their options
\* (the default is all of them), with at most MaxFiltersChanged of the three
\* changed from the default in one render.
AllFilterChoices(frame) ==
    LET all == <<StatusOptions(frame), TypeOptions(frame), DistrictOptions(frame)>>
    IN  {c \in (SUBSET all[1]) \X (SUBSET all[2]) \X (SUBSET all[3]) :
            Cardinality({k \in 1..3 : c[k] # all[k]}) <= MaxFiltersChanged}

\* Everything the else-branch computes from the frame `frame`.
\* choice is the triple of multiselect values.
RenderDashboard(frame, choice) ==
    LET fdf == Filtered(frame, choice[1], choice[2], choice[3])
    IN  /\ df' = frame
        /\ metrics' = Metrics(frame)
        /\ status_counts' = ValueCounts(frame)
        /\ df_sorted' \in SortValues(RowsOf(frame))
        /\ queue' = HeadRows(df_sorted', 5)
        /\ status_filter' = choice[1]
        /\ type_filter' = choice[2]
        /\ district_filter' = choice[3]
        /\ filtered_df' = fdf
        /\ table' \in SortValues(RowsOf(fdf))
        /\ csv' = ToCsv(fdf)

----------------------------------------------------------------------------
(* Script runs taken one loop iteration at a time *)

\* The page body of a run that starts with the flags dl, ac (lines 349-429).
\* The dashboard branch enters generate_comprehensive_data.
Body(dl, ac) ==
    /\ RenderCleared
    /\ LoopCleared
    /\ IF ~dl THEN view' = "landing" /\ pc' = "idle"
       ELSE IF ~ac THEN view' = "ready" /\ pc' = "idle"
       ELSE view' = "dashboard" /\ pc' = "generate"

\* lines 201-207
ClickInitialize ==
    /\ pc = "idle"
    /\ ~data_loaded
    /\ data_loaded' = TRUE
    /\ UNCHANGED analysis_complete
    /\ Body(TRUE, analysis_complete)
    /\ watched' = <<>>
    /\ UNCHANGED probeVars

\* 'Reset Mission' clearing data_loaded only.
ClickResetKeepsAnalysis ==
    /\ pc = "idle"
    /\ data_loaded
    /\ data_loaded' = FALSE
    /\ UNCHANGED analysis_complete
    /\ Body(FALSE, analysis_complete)
    /\ watched' = <<>>
    /\ UNCHANGED probeVars

\* lines 208-213
ClickReset ==
    /\ pc = "idle"
    /\ data_loaded
    /\ data_loaded' = FALSE
    /\ analysis_complete' = FALSE
    /\ Body(FALSE, FALSE)
    /\ watched' = <<>>
    /\ UNCHANGED probeVars

\* lines 215-221
ClickRunAnalysis ==
    /\ pc = "idle"
    /\ data_loaded /\ ~analysis_complete
    /\ analysis_complete' = TRUE
    /\ UNCHANGED data_loaded
    /\ Body(data_loaded, TRUE)
    /\ watched' = <<>>
    /\ UNCHANGED probeVars

\* Any other widget event on the dashboard (a multiselect change, a
\* 'Generate Report' click, a sidebar slider): the script runs again.
Interact ==
    /\ pc = "idle"
    /\ view = "dashboard"
    /\ UNCHANGED sessionVars
    /\ Body(data_loaded, analysis_complete)
    /\ \E i \in DOMAIN df : watched' = <<i, df[i]>>
    /\ UNCHANGED probeVars

\* One iteration of the loop, lines 302-344
GenerateStep ==
    /\ pc = "generate"
    /\ lake_idx < NumLakes
    /\ \E base_degradation \in BaseSamples :
         LET lake  == lakes[lake_idx + 1]
             deg   == Degradation(lake, base_degradation)
             score == PriorityScore(lake, deg)
         IN  /\ degradation' = deg
             /\ priority_score' = score
             /\ data' = Append(data, Row(lake, deg, score))
    /\ lake_idx' = lake_idx + 1
    /\ watched' = IF watched # <<>> /\ lake_idx + 1 = watched[1] THEN <<>> ELSE watched
    /\ UNCHANGED <<sessionVars, pc, view, renderVars, probeVars>>

\* line 346 and the rest of the dashboard branch
ReturnAndRender ==
    /\ pc = "generate"
    /\ lake_idx = NumLakes
    /\ \E choice \in AllFilterChoices(data) : RenderDashboard(data, choice)
    /\ pc' = "idle"
    /\ watched' = <<>>
    /\ UNCHANGED <<sessionVars, view, loopVars, probeVars>>

Next ==
    \/ ClickInitialize
    \/ ClickReset
    \/ ClickRunAnalysis
    \/ Interact
    \/ GenerateStep
    \/ ReturnAndRender

Spec == Init /\ [][Next]_vars

----------------------------------------------------------------------------
(* The scoring and classification expressions applied to arbitrary records *)

MaxScoreIdx == 20           \* classification inputs 0, 5, ..., 5*MaxScoreIdx
MaxDegIdx == 19             \* degradations 0, 5, ..., 5*MaxDegIdx percent

Thresholds == {35, 55, 75}

ProbeScores ==
    {k * 5 * ScoreUnit : k \in 0..MaxScoreIdx}
      \cup {t * ScoreUnit + d : t \in Thresholds, d \in {-1, 1}}

ProbeDegradations == {k * 500 : k \in 0..MaxDegIdx}

\* Records beyond the catalog: each attribute at the ends of its range, and
\* a population large enough for the raw sum to pass 100.
ProbeLakes ==
    {[name |-> "probe", area_2019 |-> 100, district |-> "Chennai", type |-> "Lake",
      pop |-> p, flood |-> f, pollution_index |-> q, encroachment |-> e] :
        p \in {0, 6200, 40000}, f \in {0, 10}, q \in {0, 100}, e \in {0, 100}}
      \cup {lakes[i] : i \in 1..NumLakes}

ProbeInputs ==
    {[op |-> "classify", lake |-> lakes[1], a |-> a, b |-> b] :
        a \in ProbeScores, b \in ProbeScores}
      \cup {[op |-> "score", lake |-> lake, a |-> a, b |-> b] :
              lake \in ProbeLakes, a \in ProbeDegradations, b \in ProbeDegradations}

Scored(score) == [score |-> score, status |-> Classify(score)]

InitEngine ==
    /\ data_loaded = FALSE
    /\ analysis_complete = FALSE
    /\ pc = "idle"
    /\ view = "landing"
    /\ watched = <<>>
    /\ lake_idx = 0
    /\ data = <<>>
    /\ degradation = 0
    /\ priority_score = 0
    /\ df = <<>>
    /\ metrics = NoMetrics
    /\ status_counts = <<>>
    /\ df_sorted = <<>>
    /\ queue = <<>>
    /\ status_filter = {}
    /\ type_filter = {}
    /\ district_filter = {}
    /\ filtered_df = <<>>
    /\ table = <<>>
    /\ csv = <<>>
    /\ probe_in \in ProbeInputs
    /\ probe_out = NoProbeOut

\* line 343 applied to the two scores
ApplyClassify ==
    /\ probe_in.op = "classify"
    /\ ~probe_out.done
    /\ probe_out' = [done |-> TRUE, a |-> Scored(probe_in.a), b |-> Scored(probe_in.b)]
    /\ UNCHANGED <<sessionVars, pc, view, watched, loopVars, renderVars, probe_in>>

\* lines 315-322 and 343 applied to the record at the two degradations
ApplyScore ==
    /\ probe_in.op = "score"
    /\ ~probe_out.done
    /\ probe_out' = [done |-> TRUE,
                     a |-> Scored(PriorityScore(probe_in.lake, probe_in.a)),
                     b |-> Scored(PriorityScore(probe_in.lake, probe_in.b))]
    /\ UNCHANGED <<sessionVars, pc, view, watched, loopVars, renderVars, probe_in>>

NextEngine ==
    \/ ApplyClassify
    \/ ApplyScore

SpecEngine == InitEngine /\ [][NextEngine]_vars

----------------------------------------------------------------------------
(* Properties *)

Rendered == pc = "idle" /\ view = "dashboard"

\* line 574: the weights announced by the Priority Queue caption, in percent
CaptionWeights ==
    [degradation |-> 35, population |-> 25, flood |-> 20, pollution |-> 15, encroachment |-> 5]

\* min(100, degradation*w1 + (pop/100)*w2 + (flood*2.5)*w3
\*            + (pollution_index*2)*w4 + encroachment*w5), factors in hundredths
CaptionScore(lake, deg) ==
    Min(100 * ScoreUnit,
        CaptionWeights.degradation * deg
          + CaptionWeights.population * lake.pop
          + CaptionWeights.flood * (lake.flood * 250)
          + CaptionWeights.pollution * (lake.pollution_index * 20)
          + CaptionWeights.encroachment * (lake.encroachment * 100))

\* The 4-tier scheme as the specification states it, on a score in ScoreUnit
Tier(score) ==
    CASE score > 75 * ScoreUnit                              -> "Critical"
      [] 55 * ScoreUnit < score /\ score <= 75 * ScoreUnit   -> "High"
      [] 35 * ScoreUnit < score /\ score <= 55 * ScoreUnit   -> "Moderate"
      [] score <= 35 * ScoreUnit                             -> "Low"

Severity(status) ==
    CASE status = "Low" -> 0
      [] status = "Moderate" -> 1
      [] status = "High" -> 2
      [] status = "Critical" -> 3

StatusLabels == {"Critical", "High", "Moderate", "Low"}

Descending(frame) ==
    \A i \in 1..(Len(frame) - 1) : frame[i].Priority_Score >= frame[i + 1].Priority_Score

PermutationOf(a, b) == Len(a) = Len(b) /\ RowsOf(a) = RowsOf(b)

Position(frame, r) == CHOOSE k \in DOMAIN frame : frame[k] = r

\* C1: after every loop iteration the local priority_score equals
\* min(100, degradation*0.35 + (pop/100)*0.25 + (flood*2.5)*0.20
\* + (pollution_index*2)*0.15 + encroachment*0.05) for the lake just processed,
\* the status of the appended row is derived from that clamped value, and the
\* caption's five weights sum to 100 percent.
C1_PriorityScoreFormula ==
    (pc = "generate" /\ lake_idx > 0) =>
        /\ priority_score = CaptionScore(lakes[lake_idx], degradation)
        /\ data[lake_idx].Status = Tier(priority_score)
        /\ CaptionWeights.degradation + CaptionWeights.population + CaptionWeights.flood
             + CaptionWeights.pollution + CaptionWeights.encroachment = 100

C1_Witness ==
    /\ pc = "generate"
    /\ lake_idx = 3
    /\ degradation = 6032
    /\ priority_score = 313320

\* C2: the classification is the step function with strict lower bounds
\* (> 75 Critical, (55, 75] High, (35, 55] Moderate, <= 35 Low); exactly 75 is
\* High, exactly 55 Moderate, exactly 35 Low; a higher score never gets a less
\* severe status.
C2_StepFunction ==
    (probe_in.op = "classify" /\ probe_out.done) =>
        /\ probe_out.a.status = Tier(probe_in.a)
        /\ probe_in.a = 75 * ScoreUnit => probe_out.a.status = "High"
        /\ probe_in.a = 55 * ScoreUnit => probe_out.a.status = "Moderate"
        /\ probe_in.a = 35 * ScoreUnit => probe_out.a.status = "Low"
        /\ probe_in.a >= probe_in.b =>
              Severity(probe_out.a.status) >= Severity(probe_out.b.status)

C2_Witness ==
    /\ probe_in.op = "classify"
    /\ probe_out.done
    /\ probe_in.a = 75 * ScoreUnit + 1
    /\ probe_in.b = 75 * ScoreUnit
    /\ probe_out.a.status = "Critical"
    /\ probe_out.b.status = "High"

\* C3: in every row of the data frame, Status is the 4-tier classification of
\* the row's own stored Priority_Score.
C3_StatusOfStoredScore ==
    \A i \in DOMAIN df : df[i].Status = Tier(df[i].Priority_Score * (ScoreUnit \div 10))

\* C4: the restoration queue is in descending order of Priority_Score and a
\* permutation of the frame's rows, the Priority Queue tab shows its first
\* five rows, every displayed lake scores at least as much as every lake not
\* displayed, and the Data Explorer table is the filtered rows in descending
\* order.
C4_QueueDescending ==
    Rendered =>
        /\ Descending(df_sorted)
        /\ PermutationOf(df_sorted, df)
        /\ Len(queue) = 5
        /\ \A i \in 1..5 : queue[i] = df_sorted[i]
        /\ \A q \in RowsOf(queue) : \A r \in RowsOf(df) \ RowsOf(queue) :
              q.Priority_Score >= r.Priority_Score
        /\ Descending(table)
        /\ PermutationOf(table, filtered_df)

C4_Witness ==
    /\ Rendered
    /\ df_sorted[1].Lake = "Velachery Lake"
    /\ df[1].Lake = "Chembarambakkam Lake"
    /\ Len(table) > 1
    /\ table # filtered_df

\* C5: two lakes of equal Priority_Score keep their catalog order in the
\* restoration queue.
C5_StableRanking ==
    Rendered =>
        \A i \in DOMAIN df : \A j \in DOMAIN df :
            (i < j /\ df[i].Priority_Score = df[j].Priority_Score) =>
                Position(df_sorted, df[i]) < Position(df_sorted, df[j])

\* C6: the status count maps each of the four labels to a count (0 for a
\* label no lake has), and the counts sum to the number of lakes.
C6_AllLabelsCounted ==
    Rendered =>
        /\ DOMAIN status_counts = StatusLabels
        /\ \A s \in DOMAIN status_counts : status_counts[s] >= 0
        /\ Len(df) = Cardinality({i \in DOMAIN df : df[i].Status \in DOMAIN status_counts})

\* C7: a re-execution of the script on the dashboard rebuilds every record
\* exactly as it was rendered before (whichever record is watched).
C7_RecordsKept ==
    [][(pc = "generate" /\ watched # <<>> /\ lake_idx' = watched[1])
          => data'[watched[1]] = watched[2]]_vars

\* C8: with the other attributes equal, a strictly larger degradation gives
\* a priority score (after the clamp) at least as large and a status at least
\* as severe.
C8_ScoreMonotone ==
    (probe_in.op = "score" /\ probe_out.done /\ probe_in.a > probe_in.b) =>
        /\ probe_out.a.score >= probe_out.b.score
        /\ Severity(probe_out.a.status) >= Severity(probe_out.b.status)

C8_Witness ==
    /\ probe_in.op = "score"
    /\ probe_out.done
    /\ probe_in.a > probe_in.b
    /\ probe_out.a.score > probe_out.b.score
    /\ probe_out.a.status = "High"
    /\ probe_out.b.status = "Moderate"

\* C9: every Priority_Score built by generate_comprehensive_data is within
\* [0, 100] (0..1000 tenths).
C9_ScoreInRange ==
    /\ \A i \in DOMAIN data : 0 <= data[i].Priority_Score /\ data[i].Priority_Score <= 1000
    /\ \A i \in DOMAIN df : 0 <= df[i].Priority_Score /\ df[i].Priority_Score <= 1000

C9_Witness ==
    /\ Rendered
    /\ \E i \in DOMAIN df : df[i].Priority_Score = 598
    /\ \E i \in DOMAIN df : df[i].Priority_Score = 313

\* C10: the export holds exactly the rows passing the three filters, in the
\* order of the displayed table.
C10_ExportMatchesTable ==
    Rendered =>
        /\ Len(csv) = Len(table) + 1
        /\ \A i \in DOMAIN table : csv[i + 1] = CsvLine(table[i])
        /\ {csv[i + 1] : i \in 1..(Len(csv) - 1)} =
              {CsvLine(df[i]) : i \in {k \in DOMAIN df :
                    /\ df[k].Status \in status_filter
                    /\ df[k].Type \in type_filter
                    /\ df[k].District \in district_filter}}

\* C11: analysis_complete implies data_loaded; the dashboard branch is taken
\* exactly when both flags are true and the landing page exactly when
\* data_loaded is false; 'Reset Mission' clears both flags and shows the
\* landing page, from which the dashboard is only entered again through
\* 'Initialize Satellite Link' (landing to ready, setting data_loaded) followed
\* by 'Run AI Analysis' (ready to dashboard, setting analysis_complete).
C11_SessionStateMachine ==
    /\ [](/\ analysis_complete => data_loaded
          /\ view = "dashboard" <=> (data_loaded /\ analysis_complete)
          /\ view = "landing" <=> ~data_loaded
          /\ view = "ready" <=> (data_loaded /\ ~analysis_complete))
    /\ [][/\ (data_loaded /\ ~data_loaded') =>
                (view' = "landing" /\ ~analysis_complete')
          /\ (view # "dashboard" /\ view' = "dashboard") =>
                (view = "ready" /\ ~analysis_complete /\ analysis_complete')
          /\ (view # "ready" /\ view' = "ready") =>
                (view = "landing" /\ ~data_loaded /\ data_loaded')]_vars

C11_Witness ==
    /\ Rendered
    /\ data_loaded
    /\ analysis_complete
    /\ Len(df) = NumLakes

\* The weighted sum of lines 315-321 with the caption's weights, before the
\* clamp of line 322
UnclampedScore(lake, deg) ==
    CaptionWeights.degradation * deg
      + CaptionWeights.population * lake.pop
      + CaptionWeights.flood * (lake.flood * 250)
      + CaptionWeights.pollution * (lake.pollution_index * 20)
      + CaptionWeights.encroachment * (lake.encroachment * 100)

\* C12: for the ten-lake catalog no priority score exceeds 75, the clamp of
\* line 322 leaves every score as the weighted sum, no row has the status
\* Critical, and the 'Critical Priority' metric is 0.
C12_NeverCritical ==
    /\ priority_score <= 75 * ScoreUnit
    /\ (pc = "generate" /\ lake_idx > 0) =>
          priority_score = UnclampedScore(lakes[lake_idx], degradation)
    /\ \A i \in DOMAIN data :
          data[i].Status # "Critical" /\ data[i].Priority_Score <= 750
    /\ \A i \in DOMAIN df :
          df[i].Status # "Critical" /\ df[i].Priority_Score <= 750
    /\ metrics.Critical_Priority = 0
    /\ Rendered => "Critical" \notin DOMAIN status_counts

C12_Witness ==
    /\ Rendered
    /\ \A i \in DOMAIN df : df[i].Degradation = 950
    /\ df[5].Priority_Score = 598
    /\ df[5].Status = "High"

\* C13: every degradation is within [0, 95]; in every row
\* 0 < Area_2024 <= Area_2019, Area_Lost and Restoration_Cost are
\* non-negative; the 'Area Lost' total is non-negative.
C13_AreasInRange ==
    /\ 0 <= degradation /\ degradation <= 9500
    /\ \A i \in DOMAIN data :
          /\ 0 <= data[i].Degradation /\ data[i].Degradation <= 950
          /\ 0 < data[i].Area_2024_ha
          /\ data[i].Area_2024_ha <= 10 * data[i].Area_2019_ha
          /\ data[i].Area_Lost_ha >= 0
          /\ data[i].Restoration_Cost_Lakhs >= 0
    /\ \A i \in DOMAIN df :
          /\ 0 <= df[i].Degradation /\ df[i].Degradation <= 950
          /\ 0 < df[i].Area_2024_ha
          /\ df[i].Area_2024_ha <= 10 * df[i].Area_2019_ha
          /\ df[i].Area_Lost_ha >= 0
          /\ df[i].Restoration_Cost_Lakhs >= 0
    /\ metrics.Area_Lost >= 0

C13_Witness ==
    /\ Rendered
    /\ df[5].Degradation = 950
    /\ df[5].Area_2024_ha = 140
    /\ df[1].Degradation = 662
    /\ metrics.Area_Lost > 0

====
